---- MODULE Spec2Model ----
(***************************************************************************)
(* Model of aws/resource_aws_acm_certificate_validation.go:                *)
(*   - the ACM certificate-validation waiter (Create / Read / Delete),     *)
(*   - the validation-record check,                                        *)
(*   - the IAM server-certificate delete with its conflict retry,          *)
(*   - normalizeCert, the certificate signature.                           *)
(* Go strings are sequences of characters; "" is << >>.                    *)
(***************************************************************************)
EXTENDS Integers, Sequences, FiniteSets, TLC

VARIABLES
    \* ---- validation waiter (resourceAwsAcmCertificateValidation*) ----
    remote,     \* the remote ACM certificate (owned by the remote system)
    d_id,       \* d.Id(): the local identity, << >> when unset
    fqdns,      \* d.Get("validation_record_fqdns"): the declared set
    pc,         \* position of the running operation
    cert,       \* the CertificateDetail held by Create / the record check
    result,     \* what the operation returned ("none" while it runs)
    elapsed,    \* seconds since the running resource.Retry started
    nDescribe,  \* DescribeCertificate calls made by the operation
    nPoll,      \* DescribeCertificate calls made by the issuance retry function
    nFinal,     \* DescribeCertificate calls made after the issuance deadline
    pollSeen,   \* the statuses the issuance polls observed, in order
    readSeen,   \* what the fetch of Read observed
    finalSeen,  \* what the fetch after the issuance deadline observed
    firstSeen,  \* what the first fetch of Create observed
    reconciler, \* the record check: "not_run", "running", or what it returned
    idBefore,   \* d.Id() when the running operation was invoked
    recSeen,    \* what the fetches of the record check observed, in order
    \* ---- resourceAwsAcmCertificateCheckValidationRecords, lines 133-158 ----
    R,          \* cert.DomainValidationOptions handed to the check
    D,          \* validationRecordFqdns handed to the check
    checkOut,   \* the returned error
    \* ---- normalizeCert ----
    certIn,     \* the argument
    sig,        \* the returned string
    variant,    \* a second text, one edit away from the argument
    sigVariant, \* normalizeCert of the second text
    oldSig,     \* the signature kept in the state (old)
    suppressed, \* suppressNormalizeCertRemoval on the two texts
    \* ---- server-certificate Delete ----
    dpc,        \* position of resourceAwsIAMServerCertificateDelete
    dresult,    \* the error Delete returned
    delapsed,   \* seconds since its resource.Retry started
    dlog,       \* the answers of the DeleteServerCertificate calls, in order
    lookups,    \* the load balancer names handed to DescribeLoadBalancers
    \* ---- server-certificate Create and Read ----
    cfgName,    \* "name" of the configuration, << >> when not set
    cfgPrefix,  \* "name_prefix" of the configuration, << >> when not set
    sslCertName, \* the local sslCertName of Create
    sc_id,      \* d.Id() of the server certificate, << >> when unset
    sc_name,    \* d.Get("name")
    upc,        \* position of resourceAwsIAMServerCertificateCreate
    uresult,    \* the error Create returned
    iam,        \* the server certificates of the remote system
    uploadSeen, \* the UploadServerCertificate call and its answer
    getSeen     \* the GetServerCertificate call and its answer

cvars == <<remote, d_id, fqdns, pc, cert, result, elapsed, nDescribe, nPoll,
           nFinal, pollSeen, readSeen, finalSeen, firstSeen, reconciler>>
ovars == <<idBefore>>
hvars == <<recSeen>>
kvars == <<R, D, checkOut>>
nvars == <<certIn, sig, variant, sigVariant, oldSig, suppressed>>
dvars == <<dpc, dresult, delapsed, dlog, lookups>>
uvars == <<cfgName, cfgPrefix, sslCertName, sc_id, sc_name, upc, uresult, iam,
           uploadSeen, getSeen>>
vars == <<cvars, ovars, hvars, kvars, nvars, dvars, uvars>>

(***************************************************************************)
(* Bounds of the model.                                                    *)
(***************************************************************************)
\* longest requirement list handed to the record check
MaxReqs == 2
\* longest certificate text handed to normalizeCert
MaxCertLen == 3
\* seconds between two attempts of the issuance retry (or twice that)
CreateStep == 900
\* seconds between two attempts of the requirement-population retry
RecordsStep == 20
\* seconds between two attempts of the delete retry
DeleteStep == 300
\* time.Minute, in seconds
Minute == 60
\* schema.DefaultTimeout(45 * time.Minute)
CreateTimeout == 45 * Minute
\* resource.Retry(1*time.Minute, ...)
RecordsTimeout == 1 * Minute
\* resource.Retry(15*time.Minute, ...)
DeleteTimeout == 15 * Minute

EmptyString == << >>

RECURSIVE SeqsUpTo(_, _)
SeqsUpTo(S, n) ==
    IF n = 0 THEN {<< >>}
    ELSE LET shorter == SeqsUpTo(S, n - 1)
         IN  shorter \cup {Append(s, x) : s \in shorter, x \in S}

(***************************************************************************)
(* The validation-record check, lines 133-158.                             *)
(***************************************************************************)
\* strings.TrimSuffix(s, "."): one trailing dot is removed
TrimSuffixDot(s) ==
    IF Len(s) > 0 /\ s[Len(s)] = "." THEN SubSeq(s, 1, Len(s) - 1) ELSE s

\* expectedFqdns[k] = v on a Go map: a later put replaces an earlier one
MapPut_KeepFirst(m, k, v) ==
    [x \in DOMAIN m \cup {k} |-> IF x \in DOMAIN m THEN m[x] ELSE v]

MapPut(m, k, v) ==
    [x \in DOMAIN m \cup {k} |-> IF x = k THEN v ELSE m[x]]

EmptyMap == [x \in {} |-> 0]

\* the loop over cert.DomainValidationOptions, lines 133-144
RECURSIVE ExpectedFqdns_FirstOnly(_, _, _)
ExpectedFqdns_FirstOnly(opts, i, m) ==
    IF i > Len(opts) THEN [err |-> "none", m |-> m]
    ELSE LET v == opts[i] IN
         IF v.ValidationMethod # "nil"
         THEN IF v.ValidationMethod # "DNS" /\ i = 1
              THEN [err |-> "unsupported", m |-> m]
              ELSE ExpectedFqdns_FirstOnly(opts, i + 1,
                       MapPut(m, TrimSuffixDot(v.RecordName), v))
         ELSE ExpectedFqdns_FirstOnly(opts, i + 1, m)

RECURSIVE ExpectedFqdns(_, _, _)
ExpectedFqdns(opts, i, m) ==
    IF i > Len(opts) THEN [err |-> "none", m |-> m]
    ELSE LET v == opts[i] IN
         IF v.ValidationMethod # "nil"
         THEN IF v.ValidationMethod # "DNS"
              THEN [err |-> "unsupported", m |-> m]
              ELSE ExpectedFqdns(opts, i + 1,
                       MapPut(m, TrimSuffixDot(v.RecordName), v))
         ELSE IF v.ValidationEmails > 0
              THEN [err |-> "unsupported", m |-> m]
              ELSE ExpectedFqdns(opts, i + 1, m)

\* the loop over validationRecordFqdns, lines 146-148
DeleteDeclared_Raw(m, declared) ==
    [k \in DOMAIN m \ declared |-> m[k]]

DeleteDeclared(m, declared) ==
    [k \in DOMAIN m \ {TrimSuffixDot(f) : f \in declared} |-> m[k]]

\* lines 133-158.  The multierror lists one line per map entry, in the map's
\* iteration order, which Go leaves unspecified: the lines are kept as a set
\* of <<domain, record name>>.
CheckSatisfaction(declared, opts) ==
    LET built == ExpectedFqdns(opts, 1, EmptyMap) IN
    IF built.err # "none"
    THEN [kind |-> "unsupported", entries |-> {}]
    ELSE LET left == DeleteDeclared(built.m, declared) IN
         IF DOMAIN left # {}
         THEN [kind |-> "missing",
               entries |-> {<<left[k].DomainName, k>> : k \in DOMAIN left}]
         ELSE [kind |-> "ok", entries |-> {}]

Domains == {"d1", "d2"}
RecordNames == {<<"a">>, <<"a", ".">>, <<"a", ".", ".">>, <<"b", ".">>}
DeclNames == {<<"a">>, <<"a", ".">>, <<"a", ".", ".">>, <<"b">>}

\* acm.DomainValidation; RecordName is ResourceRecord.Name, present for DNS
Requirements ==
    [DomainName : Domains, ValidationMethod : {"DNS"},
     RecordName : RecordNames, ValidationEmails : {0}]
    \cup
    [DomainName : Domains, ValidationMethod : {"EMAIL"},
     RecordName : {EmptyString}, ValidationEmails : {1}]
    \cup
    [DomainName : Domains, ValidationMethod : {"nil"},
     RecordName : {EmptyString}, ValidationEmails : {0, 1}]

NoCheck == [kind |-> "none", entries |-> {}]

(***************************************************************************)
(* normalizeCert, lines 399-430.                                           *)
(***************************************************************************)
Chars == {"x", "CR", "SP", "LF"}
\* unicode.IsSpace on the characters of the model
IsSpace(c) == c \in {"CR", "SP", "LF"}

\* strings.TrimSpace
RECURSIVE TrimLeft(_)
TrimLeft(s) ==
    IF Len(s) > 0 /\ IsSpace(s[1]) THEN TrimLeft(Tail(s)) ELSE s

RECURSIVE TrimRight(_)
TrimRight(s) ==
    IF Len(s) > 0 /\ IsSpace(s[Len(s)])
    THEN TrimRight(SubSeq(s, 1, Len(s) - 1)) ELSE s

TrimSpace(s) == TrimRight(TrimLeft(s))

\* stripCR without its test: the bytes are copied as they are
stripCR_KeepAll(b) == b

\* stripCR, lines 420-430
stripCR(b) == SelectSeq(b, LAMBDA ch : ch # "CR")

\* sha1.Sum: a 20-byte digest, modelled as collision-free (the digest of b
\* is b under a tag)
Sha1Sum(b) == <<"sha1">> \o b

\* hex.EncodeToString: two hex digits per byte, so never empty for a digest
HexEncodeToString(digest) == <<"hex">> \o digest

\* the values passed as cert interface{}: nil, a nil *string, a string,
\* a *string, a value of another type
CertInputs ==
    [type : {"nil", "other"}, isnil : {FALSE}, val : {EmptyString}]
    \cup [type : {"*string"}, isnil : {TRUE}, val : {EmptyString}]
    \cup [type : {"string", "*string"}, isnil : {FALSE},
          val : SeqsUpTo(Chars, MaxCertLen)]

normalizeCert_EmptyIsNull(c) ==
    IF c.type = "nil" \/ (c.type = "*string" /\ c.isnil) THEN EmptyString
    ELSE IF c.type \in {"string", "*string"}
         THEN IF c.val = EmptyString THEN EmptyString
              ELSE HexEncodeToString(Sha1Sum(stripCR(TrimSpace(c.val))))
         ELSE EmptyString

normalizeCert(c) ==
    IF c.type = "nil" \/ (c.type = "*string" /\ c.isnil) THEN EmptyString
    ELSE IF c.type \in {"string", "*string"}
         THEN HexEncodeToString(Sha1Sum(stripCR(TrimSpace(c.val))))
         ELSE EmptyString

NoSig == <<"unset">>
NoSuppress == [new |-> FALSE, variant |-> TRUE]
\* a string passed as cert interface{}
Text(s) == [type |-> "string", isnil |-> FALSE, val |-> s]

\* suppressNormalizeCertRemoval, lines 434-436 (k and d are not used)
suppressNormalizeCertRemoval(old, new) == normalizeCert(Text(new)) = old

\* the texts one edit away from s: a carriage return inserted or removed at
\* any position, a whitespace character added or removed at either end
Spaces == {c \in Chars : IsSpace(c)}
Without(s, i) == SubSeq(s, 1, i - 1) \o SubSeq(s, i + 1, Len(s))
Variants(s) ==
    {SubSeq(s, 1, i) \o <<"CR">> \o SubSeq(s, i + 1, Len(s)) : i \in 0..Len(s)}
    \cup {Without(s, i) : i \in {j \in 1..Len(s) : s[j] = "CR"}}
    \cup {<<w>> \o s : w \in Spaces}
    \cup {Append(s, w) : w \in Spaces}
    \cup {Without(s, i) : i \in {j \in {1, Len(s)} \cap (1..Len(s)) : IsSpace(s[j])}}

\* the signatures the state can hold
StoredSigs(s) ==
    {EmptyString, normalizeCert(Text(s)), normalizeCert(Text(<<"x">>))}
NoCert == [type |-> "nil", isnil |-> FALSE, val |-> EmptyString]

(***************************************************************************)
(* The remote ACM certificate and DescribeCertificate.                     *)
(***************************************************************************)
Types == {"AMAZON_ISSUED", "IMPORTED"}
Statuses == {"PENDING_VALIDATION", "ISSUED", "FAILED"}
\* IssuedAt, seconds into a fixed minute; NoTime is a nil IssuedAt
Timestamps == {7, 42}
NoTime == 0

Dns(dom, name) ==
    [DomainName |-> dom, ValidationMethod |-> "DNS",
     RecordName |-> name, ValidationEmails |-> 0]
Email(dom) ==
    [DomainName |-> dom, ValidationMethod |-> "EMAIL",
     RecordName |-> EmptyString, ValidationEmails |-> 1]

\* the requirement sets the remote certificate can carry
OptionLists ==
    { << >>,
      << Dns("d1", <<"a", ".">>) >>,
      << Dns("d1", <<"b", ".">>) >>,
      << Dns("d1", <<"a", ".">>), Email("d2") >> }
\* the values of validation_record_fqdns
FqdnChoices == { {}, {<<"a">>} }

NoDetail ==
    [Type |-> "nil", Status |-> "nil", Options |-> << >>, IssuedAt |-> NoTime]

Detail(rem) ==
    [Type |-> rem.Type, Status |-> rem.Status, Options |-> rem.Options,
     IssuedAt |-> rem.IssuedAt]

\* acmconn.DescribeCertificate: the certificate, not-found when it does not
\* exist, or a transport error; a failed call carries no certificate
DescribeCertificate(rem) ==
    {[err |-> "RequestError", cert |-> NoDetail]}
    \cup (IF rem.exists
          THEN {[err |-> "none", cert |-> Detail(rem)]}
          ELSE {[err |-> "ResourceNotFoundException", cert |-> NoDetail]})

Digits == <<"0", "1", "2", "3", "4", "5", "6", "7", "8", "9">>
\* time.Time.String(): "2006-01-02 15:04:05 -0700 MST" of the timestamp
TimeString(t) ==
    <<"2020-01-01 00:00:", Digits[(t \div 10) + 1], Digits[(t % 10) + 1],
      " +0000 UTC">>

(***************************************************************************)
(* resource.Retry and isResourceTimeoutError (not part of the source       *)
(* file): the attempt runs at once; after a retryable failure the engine   *)
(* sleeps, and stops with a timeout error once the elapsed time has        *)
(* reached the deadline.                                                   *)
(***************************************************************************)
RetrySleeps(step) == {step, 2 * step}
RetryTimedOut(e, timeout) == e >= timeout

(***************************************************************************)
(* resourceAwsAcmCertificateValidationRead, lines 161-184, on the answer   *)
(* of its DescribeCertificate: the identity it leaves and its error.       *)
(***************************************************************************)
\* Read that forgets the identity on every failed fetch
ReadOutcome_ForgetOnError(resp, id) ==
    IF resp.err # "none"
    THEN [id |-> EmptyString, err |-> "none"]
    ELSE IF resp.cert.Status # "ISSUED"
    THEN [id |-> EmptyString, err |-> "none"]
    ELSE [id |-> TimeString(resp.cert.IssuedAt), err |-> "none"]

\* Read that clears the identity of an issued certificate
ReadOutcome_Taint(resp, id) ==
    IF resp.err = "ResourceNotFoundException"
    THEN [id |-> EmptyString, err |-> "none"]
    ELSE IF resp.err # "none"
    THEN [id |-> id, err |-> "describe_error"]
    ELSE [id |-> EmptyString, err |-> "none"]

ReadOutcome(resp, id) ==
    IF resp.err = "ResourceNotFoundException"
    THEN [id |-> EmptyString, err |-> "none"]
    ELSE IF resp.err # "none"
    THEN [id |-> id, err |-> "describe_error"]
    ELSE IF resp.cert.Status # "ISSUED"
    THEN [id |-> EmptyString, err |-> "none"]
    ELSE [id |-> TimeString(resp.cert.IssuedAt), err |-> "none"]

\* what a fetch observed of the certificate
Obs(resp) ==
    [err |-> resp.err, Type |-> resp.cert.Type, Status |-> resp.cert.Status,
     IssuedAt |-> resp.cert.IssuedAt]
NoObs == [err |-> "unset", Type |-> "nil", Status |-> "nil", IssuedAt |-> NoTime]
SawIssued(o) == o.err = "none" /\ o.Status = "ISSUED"
SawNotIssued(o) == o.err = "none" /\ o.Status # "ISSUED"

(***************************************************************************)
(* resourceAwsAcmCertificateValidationCreate, lines 42-96.                 *)
(***************************************************************************)
CreateIdle ==
    /\ UNCHANGED <<ovars, kvars, nvars, dvars, uvars>>

\* Create returns err
Return(err) ==
    /\ result' = err
    /\ pc' = "done"

\* lines 62-69: what Create does with the error of the record check
AfterReconciler_Ignore(err) ==
    /\ pc' = "poll"
    /\ elapsed' = 0
    /\ UNCHANGED result

AfterReconciler(err) ==
    IF err # "ok"
    THEN Return(err) /\ UNCHANGED elapsed
    ELSE pc' = "poll" /\ elapsed' = 0 /\ UNCHANGED result

\* resourceAwsAcmCertificateCheckValidationRecords returns err to Create
Reconciled(err) ==
    /\ reconciler' = err
    /\ AfterReconciler(err)

\* lines 133-158 on the requirement set of c
RunCheck(c) ==
    /\ cert' = c
    /\ Reconciled(CheckSatisfaction(fqdns, c.Options).kind)

\* lines 50-67 and 98-101: the first fetch, the type test, the choice of
\* running the record check
CreateFetch_NoTypeTest ==
    /\ pc = "start"
    /\ \E resp \in DescribeCertificate(remote) :
         /\ nDescribe' = nDescribe + 1
         /\ firstSeen' = Obs(resp)
         /\ IF resp.err # "none"
            THEN Return("describe_error") /\ UNCHANGED <<cert, elapsed, reconciler>>
            ELSE IF fqdns # {}
            THEN IF Len(resp.cert.Options) = 0
                 THEN /\ cert' = resp.cert
                      /\ reconciler' = "running"
                      /\ pc' = "records_retry"
                      /\ elapsed' = 0
                      /\ UNCHANGED result
                 ELSE RunCheck(resp.cert)
            ELSE /\ cert' = resp.cert
                 /\ pc' = "poll"
                 /\ elapsed' = 0
                 /\ UNCHANGED <<result, reconciler>>
    /\ UNCHANGED <<remote, d_id, fqdns, nPoll, nFinal, pollSeen, readSeen, finalSeen>>
    /\ UNCHANGED recSeen
    /\ CreateIdle

CreateFetch ==
    /\ pc = "start"
    /\ \E resp \in DescribeCertificate(remote) :
         /\ nDescribe' = nDescribe + 1
         /\ firstSeen' = Obs(resp)
         /\ IF resp.err # "none"
            THEN Return("describe_error") /\ UNCHANGED <<cert, elapsed, reconciler>>
            ELSE IF resp.cert.Type # "AMAZON_ISSUED"
            THEN Return("wrong_type") /\ UNCHANGED <<cert, elapsed, reconciler>>
            ELSE IF fqdns # {}
            THEN IF Len(resp.cert.Options) = 0
                 THEN /\ cert' = resp.cert
                      /\ reconciler' = "running"
                      /\ pc' = "records_retry"
                      /\ elapsed' = 0
                      /\ UNCHANGED result
                 ELSE RunCheck(resp.cert)
            ELSE /\ cert' = resp.cert
                 /\ pc' = "poll"
                 /\ elapsed' = 0
                 /\ UNCHANGED <<result, reconciler>>
    /\ UNCHANGED <<remote, d_id, fqdns, nPoll, nFinal, pollSeen, readSeen, finalSeen>>
    /\ UNCHANGED recSeen
    /\ CreateIdle

\* what a fetch of the record check observed; final: after the deadline
RecObs(output, final) ==
    [err |-> output.err, Options |-> output.cert.Options, final |-> final]

\* lines 107-118 and 128-131: one attempt of the requirement-population retry
RecordsRetry ==
    /\ pc = "records_retry"
    /\ \E output \in DescribeCertificate(remote) :
         /\ nDescribe' = nDescribe + 1
         /\ recSeen' = Append(recSeen, RecObs(output, FALSE))
         /\ IF output.err # "none"
            THEN Reconciled("check_options_error") /\ UNCHANGED cert
            ELSE IF Len(output.cert.Options) = 0
            THEN \E sleep \in RetrySleeps(RecordsStep) :
                   /\ elapsed' = elapsed + sleep
                   /\ pc' = IF RetryTimedOut(elapsed', RecordsTimeout)
                            THEN "records_final" ELSE "records_retry"
                   /\ UNCHANGED <<cert, result, reconciler>>
            ELSE RunCheck(output.cert)
    /\ UNCHANGED <<remote, d_id, fqdns, nPoll, nFinal, pollSeen, readSeen,
                   finalSeen, firstSeen>>
    /\ CreateIdle

\* the fetch after the 1-minute deadline, taking a set that is still empty
\* for a set with nothing to check
RecordsFinal_Vacuous ==
    /\ pc = "records_final"
    /\ \E output \in DescribeCertificate(remote) :
         /\ nDescribe' = nDescribe + 1
         /\ recSeen' = Append(recSeen, RecObs(output, TRUE))
         /\ IF output.err # "none"
            THEN Reconciled("describe_acm_error") /\ UNCHANGED cert
            ELSE RunCheck(output.cert)
    /\ UNCHANGED <<remote, d_id, fqdns, nPoll, nFinal, pollSeen, readSeen,
                   finalSeen, firstSeen>>
    /\ CreateIdle

\* lines 119-131: the fetch after the 1-minute deadline
RecordsFinal ==
    /\ pc = "records_final"
    /\ \E output \in DescribeCertificate(remote) :
         /\ nDescribe' = nDescribe + 1
         /\ recSeen' = Append(recSeen, RecObs(output, TRUE))
         /\ IF output.err # "none"
            THEN Reconciled("describe_acm_error") /\ UNCHANGED cert
            ELSE IF Len(output.cert.Options) = 0
            THEN Reconciled("options_empty") /\ UNCHANGED cert
            ELSE RunCheck(output.cert)
    /\ UNCHANGED <<remote, d_id, fqdns, nPoll, nFinal, pollSeen, readSeen,
                   finalSeen, firstSeen>>
    /\ CreateIdle

\* lines 69-80 and 92-94: one attempt of the issuance retry, up to its call
\* of Read
IssuancePoll ==
    /\ pc = "poll"
    /\ \E resp \in DescribeCertificate(remote) :
         /\ nDescribe' = nDescribe + 1
         /\ nPoll' = nPoll + 1
         /\ pollSeen' = Append(pollSeen, Obs(resp))
         /\ IF resp.err # "none"
            THEN Return("describe_created_error") /\ UNCHANGED elapsed
            ELSE IF resp.cert.Status # "ISSUED"
            THEN \E sleep \in RetrySleeps(CreateStep) :
                   /\ elapsed' = elapsed + sleep
                   /\ pc' = IF RetryTimedOut(elapsed', CreateTimeout)
                            THEN "final" ELSE "poll"
                   /\ UNCHANGED result
            ELSE pc' = "read" /\ UNCHANGED <<result, elapsed>>
    /\ UNCHANGED <<remote, d_id, fqdns, cert, nFinal, readSeen, finalSeen,
                   firstSeen, reconciler>>
    /\ UNCHANGED recSeen
    /\ CreateIdle

\* lines 81-85 and 92-95: Read called by the retry function, then the return
ReadInCreate ==
    /\ pc = "read"
    /\ \E resp \in DescribeCertificate(remote) :
         LET out == ReadOutcome(resp, d_id) IN
         /\ nDescribe' = nDescribe + 1
         /\ readSeen' = Obs(resp)
         /\ d_id' = out.id
         /\ IF out.err # "none"
            THEN Return("describe_created_error")
            ELSE Return("ok")
    /\ UNCHANGED <<remote, fqdns, cert, elapsed, nPoll, nFinal, pollSeen,
                   finalSeen, firstSeen, reconciler>>
    /\ UNCHANGED recSeen
    /\ CreateIdle

\* lines 86-95: the fetch after the issuance deadline.  A failed call leaves
\* resp.Certificate nil and line 88 dereferences it: a runtime panic.
FinalCheck_NoFetch ==
    /\ pc = "final"
    /\ Return("not_issued")
    /\ UNCHANGED <<remote, d_id, fqdns, cert, elapsed, nDescribe, nPoll,
                   nFinal, pollSeen, readSeen, finalSeen, firstSeen, reconciler>>
    /\ UNCHANGED recSeen
    /\ CreateIdle

FinalCheck ==
    /\ pc = "final"
    /\ \E resp \in DescribeCertificate(remote) :
         /\ nDescribe' = nDescribe + 1
         /\ nFinal' = nFinal + 1
         /\ finalSeen' = Obs(resp)
         /\ IF resp.err # "none"
            THEN Return("panic")
            ELSE IF resp.cert.Status # "ISSUED"
            THEN Return("not_issued")
            ELSE Return("ok")
    /\ UNCHANGED <<remote, d_id, fqdns, cert, elapsed, nPoll, pollSeen,
                   readSeen, firstSeen, reconciler>>
    /\ UNCHANGED recSeen
    /\ CreateIdle

(***************************************************************************)
(* Other actors on the remote certificate, while the operation runs.       *)
(***************************************************************************)
RemoteFrame ==
    /\ UNCHANGED <<d_id, fqdns, pc, cert, result, elapsed, nDescribe, nPoll,
                   nFinal, pollSeen, readSeen, finalSeen, firstSeen, reconciler>>
    /\ UNCHANGED recSeen
    /\ CreateIdle

RemoteSetStatus ==
    /\ pc \notin {"done"}
    /\ remote.exists
    /\ \E s \in Statuses \ {remote.Status} :
       \E t \in Timestamps :
         remote' = [remote EXCEPT !.Status = s,
                                  !.IssuedAt = IF s = "ISSUED" THEN t ELSE NoTime]
    /\ RemoteFrame

RemotePopulate ==
    /\ pc \notin {"done"}
    /\ remote.exists
    /\ remote.Options = << >>
    /\ \E o \in OptionLists \ {<< >>} :
         remote' = [remote EXCEPT !.Options = o]
    /\ RemoteFrame

RemoteDelete ==
    /\ pc \notin {"done"}
    /\ remote.exists
    /\ remote' = [remote EXCEPT !.exists = FALSE]
    /\ RemoteFrame

Remotes ==
    { r \in [exists : BOOLEAN, Type : Types, Status : Statuses,
             Options : OptionLists, IssuedAt : Timestamps \cup {NoTime}] :
        (r.Status = "ISSUED") <=> (r.IssuedAt # NoTime) }

CheckIdle == R = << >> /\ D = {} /\ checkOut = NoCheck
\* no call made
NoCall == [called |-> FALSE, name |-> << >>, err |-> "unset", id |-> << >>]
UploadIdle ==
    /\ cfgName = << >> /\ cfgPrefix = << >> /\ sslCertName = << >>
    /\ sc_id = << >> /\ sc_name = << >> /\ upc = "idle" /\ uresult = "none"
    /\ iam = {} /\ uploadSeen = NoCall /\ getSeen = NoCall
NormIdle ==
    /\ certIn = NoCert /\ sig = NoSig
    /\ variant = EmptyString /\ sigVariant = NoSig
    /\ oldSig = EmptyString /\ suppressed = NoSuppress
DeleteIdle ==
    /\ dpc = "idle" /\ dresult = "none" /\ delapsed = 0
    /\ dlog = << >> /\ lookups = << >>
WaiterIdle ==
    /\ remote = [exists |-> FALSE, Type |-> "AMAZON_ISSUED",
                 Status |-> "PENDING_VALIDATION", Options |-> << >>,
                 IssuedAt |-> NoTime]
    /\ d_id = EmptyString /\ fqdns = {} /\ pc = "idle" /\ cert = NoDetail
    /\ result = "none" /\ elapsed = 0 /\ nDescribe = 0 /\ nPoll = 0
    /\ nFinal = 0 /\ pollSeen = << >> /\ readSeen = NoObs /\ finalSeen = NoObs
    /\ firstSeen = NoObs /\ reconciler = "not_run"
    /\ idBefore = EmptyString
    /\ recSeen = << >>

Init ==
    /\ remote \in Remotes
    /\ fqdns \in FqdnChoices
    /\ d_id = EmptyString
    /\ pc = "start"
    /\ cert = NoDetail
    /\ result = "none"
    /\ elapsed = 0
    /\ nDescribe = 0 /\ nPoll = 0 /\ nFinal = 0
    /\ pollSeen = << >> /\ readSeen = NoObs /\ finalSeen = NoObs
    /\ firstSeen = NoObs /\ reconciler = "not_run"
    /\ idBefore = EmptyString
    /\ recSeen = << >>
    /\ CheckIdle /\ NormIdle /\ DeleteIdle /\ UploadIdle

Next ==
    \/ CreateFetch
    \/ RecordsRetry
    \/ RecordsFinal
    \/ IssuancePoll
    \/ ReadInCreate
    \/ FinalCheck
    \/ RemoteSetStatus
    \/ RemotePopulate
    \/ RemoteDelete

Spec == Init /\ [][Next]_vars

\* the steps of Create itself; each remote call returns and time advances, so
\* a step that can be taken is taken
CreateSteps ==
    \/ CreateFetch
    \/ RecordsRetry
    \/ RecordsFinal
    \/ IssuancePoll
    \/ ReadInCreate
    \/ FinalCheck

FairSpec == Spec /\ WF_vars(CreateSteps)

(***************************************************************************)
(* Read and Delete of the validation waiter, invoked by the orchestrator   *)
(* on a resource in any state.                                             *)
(***************************************************************************)
\* the identities a resource can hold when an operation is invoked
Identities == {EmptyString} \cup {TimeString(t) : t \in Timestamps}

\* resourceAwsAcmCertificateValidationRead, lines 161-184
Read ==
    /\ pc = "ready"
    /\ \E resp \in DescribeCertificate(remote) :
         LET out == ReadOutcome(resp, d_id) IN
         /\ nDescribe' = nDescribe + 1
         /\ readSeen' = Obs(resp)
         /\ d_id' = out.id
         /\ result' = IF out.err = "none" THEN "ok" ELSE out.err
    /\ pc' = "read_done"
    /\ UNCHANGED <<remote, fqdns, cert, elapsed, nPoll, nFinal, pollSeen,
                   finalSeen, firstSeen, reconciler>>
    /\ UNCHANGED recSeen
    /\ CreateIdle

\* Delete that clears the identity
Delete_ClearId ==
    /\ pc = "ready"
    /\ result' = "ok"
    /\ d_id' = EmptyString
    /\ pc' = "delete_done"
    /\ UNCHANGED <<remote, fqdns, cert, elapsed, nDescribe, nPoll, nFinal,
                   pollSeen, readSeen, finalSeen, firstSeen, reconciler>>
    /\ UNCHANGED recSeen
    /\ CreateIdle

\* resourceAwsAcmCertificateValidationDelete, lines 186-189
Delete ==
    /\ pc = "ready"
    /\ result' = "ok"
    /\ pc' = "delete_done"
    /\ UNCHANGED <<remote, d_id, fqdns, cert, elapsed, nDescribe, nPoll, nFinal,
                   pollSeen, readSeen, finalSeen, firstSeen, reconciler>>
    /\ UNCHANGED recSeen
    /\ CreateIdle

\* the orchestrator invokes the next operation on the resource
Reinvoke ==
    /\ pc \in {"read_done", "delete_done"}
    /\ pc' = "ready"
    /\ idBefore' = d_id
    /\ result' = "none"
    /\ nDescribe' = 0
    /\ readSeen' = NoObs
    /\ UNCHANGED <<remote, d_id, fqdns, cert, elapsed, nPoll, nFinal, pollSeen,
                   finalSeen, firstSeen, reconciler>>
    /\ UNCHANGED <<hvars, kvars, nvars, dvars, uvars>>

InitOps ==
    /\ remote \in Remotes
    /\ fqdns \in FqdnChoices
    /\ d_id \in Identities
    /\ idBefore = d_id
    /\ recSeen = << >>
    /\ pc = "ready"
    /\ cert = NoDetail
    /\ result = "none"
    /\ elapsed = 0
    /\ nDescribe = 0 /\ nPoll = 0 /\ nFinal = 0
    /\ pollSeen = << >> /\ readSeen = NoObs /\ finalSeen = NoObs
    /\ firstSeen = NoObs /\ reconciler = "not_run"
    /\ CheckIdle /\ NormIdle /\ DeleteIdle /\ UploadIdle

NextOps ==
    \/ Read
    \/ Delete
    \/ Reinvoke

SpecOps == InitOps /\ [][NextOps]_vars

(***************************************************************************)
(* The record check as a function of its two arguments.                    *)
(***************************************************************************)
InitCheck ==
    /\ R \in SeqsUpTo(Requirements, MaxReqs)
    /\ D \in SUBSET DeclNames
    /\ checkOut = NoCheck
    /\ WaiterIdle /\ NormIdle /\ DeleteIdle /\ UploadIdle

CheckRecords ==
    /\ checkOut = NoCheck
    /\ checkOut' = CheckSatisfaction(D, R)
    /\ UNCHANGED <<R, D, cvars, ovars, hvars, nvars, dvars, uvars>>

NextCheck == CheckRecords

SpecCheck == InitCheck /\ [][NextCheck]_vars

(***************************************************************************)
(* normalizeCert as a function of its argument.                            *)
(***************************************************************************)
InitNorm ==
    /\ certIn \in CertInputs
    /\ sig = NoSig
    /\ variant \in Variants(certIn.val)
    /\ sigVariant = NoSig
    /\ oldSig \in StoredSigs(certIn.val)
    /\ suppressed = NoSuppress
    /\ WaiterIdle /\ CheckIdle /\ DeleteIdle /\ UploadIdle

Normalize ==
    /\ sig = NoSig
    /\ sig' = normalizeCert(certIn)
    /\ sigVariant' = normalizeCert([certIn EXCEPT !.val = variant])
    /\ suppressed' = [new |-> suppressNormalizeCertRemoval(oldSig, certIn.val),
                      variant |-> suppressNormalizeCertRemoval(oldSig, variant)]
    /\ UNCHANGED <<certIn, variant, oldSig, cvars, ovars, hvars, kvars, dvars,
                   uvars>>

NextNorm == Normalize

SpecNorm == InitNorm /\ [][NextNorm]_vars

(***************************************************************************)
(* resourceAwsIAMServerCertificateDelete, lines 343-374, and               *)
(* currentlyInUseBy, lines 383-397.  An error message is a sequence of     *)
(* characters in which the words "currently in use by " and the text around *)
(* them are single elements.                                               *)
(***************************************************************************)
InUseBy == "currently in use by "
\* the characters of [a-z0-9-] and of [a-z0-9:-] that the messages use
Class2 == {"a", "r", "n", "e", "l", "b", "m", "y", "u", "s", "1", "-"}
Class1 == Class2 \cup {":"}

\* "Certificate: X is currently in use by arn:elb:1:lb/my-lb. Please ..."
MsgArn ==
    <<"Certificate: X is ", InUseBy, "a", "r", "n", ":", "e", "l", "b", ":",
      "1", ":", "l", "b", "/", "m", "y", "-", "l", "b", ".", " Please remove it">>
\* "... currently in use by elasticloadbalancing:us-east-1/my-lb."
MsgDocumented ==
    <<"Certificate: X is ", InUseBy, "e", "l", "b", ":", "u", "s", "-", "1",
      "/", "m", "y", "-", "l", "b", ".">>
\* an ARN whose resource name the pattern does not accept
MsgArnUpper ==
    <<"Certificate: X is ", InUseBy, "a", "r", "n", ":", "e", "l", "b", "/",
      "M", "y", "_", "L", "B", ".">>
MsgOther == <<"Cannot delete entity, must detach all policies first.">>
Messages == {MsgArn, MsgDocumented, MsgArnUpper, MsgOther}

\* strings.Contains
Contains(s, pat) ==
    \E i \in 1..(Len(s) - Len(pat) + 1) : SubSeq(s, i, i + Len(pat) - 1) = pat

\* the last index of the longest run of characters of cls starting at i
RECURSIVE RunEnd(_, _, _)
RunEnd(s, i, cls) ==
    IF i <= Len(s) /\ s[i] \in cls THEN RunEnd(s, i + 1, cls) ELSE i - 1

\* `currently in use by ([a-z0-9:-]+)\/([a-z0-9-]+)\.` matched at i: the
\* bounds of the second group, or << >>.  Neither class holds the character
\* that follows its group, so each group is the longest run.
MatchAt(s, i) ==
    IF s[i] # InUseBy THEN << >>
    ELSE LET e1 == RunEnd(s, i + 1, Class1) IN
         IF ~(e1 >= i + 1 /\ e1 + 1 <= Len(s) /\ s[e1 + 1] = "/") THEN << >>
         ELSE LET e2 == RunEnd(s, e1 + 2, Class2) IN
              IF e2 >= e1 + 2 /\ e2 + 1 <= Len(s) /\ s[e2 + 1] = "."
              THEN <<e1 + 2, e2>> ELSE << >>

\* r.FindStringSubmatch(awsErr), then matches[2]: << >> when nothing matches,
\* else <<lbName>> of the leftmost match
FindLbName(s) ==
    LET hits == {i \in 1..Len(s) : MatchAt(s, i) # << >>} IN
    IF hits = {} THEN << >>
    ELSE LET i == CHOOSE h \in hits : \A g \in hits : h <= g
             m == MatchAt(s, i)
         IN  << SubSeq(s, m[1], m[2]) >>

\* conn.DescribeLoadBalancers: found, not found, or another error
LbAnswers == {"found", "LoadBalancerNotFound", "RequestError"}

\* conn.DeleteServerCertificate: success, an awserr.Error with its code and
\* message, or an error that is no awserr.Error
DeleteAnswers ==
    {[aws |-> FALSE, code |-> "ok", msg |-> EmptyString],
     [aws |-> TRUE, code |-> "NoSuchEntity", msg |-> EmptyString],
     [aws |-> TRUE, code |-> "AccessDenied", msg |-> EmptyString],
     [aws |-> FALSE, code |-> "RequestError", msg |-> EmptyString]}
    \cup [aws : {TRUE}, code : {"DeleteConflict"}, msg : Messages]

\* the retry function without the message test of line 353
Classify_AnyConflict(ans) ==
    IF ans.code = "ok" THEN "done"
    ELSE IF ans.aws /\ ans.code = "DeleteConflict"
    THEN "retry"
    ELSE IF ans.aws /\ ans.code = "NoSuchEntity"
    THEN "done"
    ELSE "fatal"

\* lines 351-364: what the retry function makes of an answer
Classify(ans) ==
    IF ans.code = "ok" THEN "done"
    ELSE IF /\ ans.aws
            /\ ans.code = "DeleteConflict"
            /\ Contains(ans.msg, <<InUseBy, "a", "r", "n">>)
    THEN "retry"
    ELSE IF ans.aws /\ ans.code = "NoSuchEntity"
    THEN "done"
    ELSE "fatal"

DeleteFrame == UNCHANGED <<cvars, ovars, hvars, kvars, nvars, uvars>>

\* one attempt of the delete retry in which a failed lookup of the load
\* balancer is returned as the error of the attempt
DeleteAttempt_LookupFails ==
    /\ dpc = "retry"
    /\ \E ans \in DeleteAnswers :
         LET class == Classify(ans)
             name == FindLbName(ans.msg)
         IN
         /\ dlog' = Append(dlog, ans)
         /\ IF class = "retry"
            THEN \E lb \in LbAnswers :
                   /\ lookups' = IF name # << >>
                                 THEN Append(lookups,
                                        [attempt |-> Len(dlog) + 1,
                                         name |-> name[1], answer |-> lb])
                                 ELSE lookups
                   /\ IF name # << >> /\ lb = "RequestError"
                      THEN /\ dresult' = lb
                           /\ dpc' = "done"
                           /\ UNCHANGED delapsed
                      ELSE /\ \E sleep \in RetrySleeps(DeleteStep) :
                                /\ delapsed' = delapsed + sleep
                                /\ dpc' = IF RetryTimedOut(delapsed', DeleteTimeout)
                                          THEN "final" ELSE "retry"
                           /\ UNCHANGED dresult
            ELSE /\ dresult' = IF class = "done" THEN "ok" ELSE ans.code
                 /\ dpc' = "done"
                 /\ UNCHANGED <<delapsed, lookups>>
    /\ DeleteFrame

\* lines 346-365: one attempt of the delete retry
DeleteAttempt ==
    /\ dpc = "retry"
    /\ \E ans \in DeleteAnswers :
         LET class == Classify(ans)
             name == FindLbName(ans.msg)
         IN
         /\ dlog' = Append(dlog, ans)
         /\ IF class = "retry"
            THEN /\ IF name # << >>
                    THEN \E lb \in LbAnswers :
                           lookups' = Append(lookups,
                               [attempt |-> Len(dlog) + 1, name |-> name[1],
                                answer |-> lb])
                    ELSE UNCHANGED lookups
                 /\ \E sleep \in RetrySleeps(DeleteStep) :
                      /\ delapsed' = delapsed + sleep
                      /\ dpc' = IF RetryTimedOut(delapsed', DeleteTimeout)
                                THEN "final" ELSE "retry"
                 /\ UNCHANGED dresult
            ELSE /\ dresult' = IF class = "done" THEN "ok" ELSE ans.code
                 /\ dpc' = "done"
                 /\ UNCHANGED <<delapsed, lookups>>
    /\ DeleteFrame

\* lines 367-373: the attempt after the 15-minute deadline; its error is
\* returned as it is
DeleteFinal ==
    /\ dpc = "final"
    /\ \E ans \in DeleteAnswers :
         /\ dlog' = Append(dlog, ans)
         /\ dresult' = ans.code
         /\ dpc' = "done"
    /\ UNCHANGED <<delapsed, lookups>>
    /\ DeleteFrame

InitDelete ==
    /\ dpc = "retry"
    /\ dresult = "none"
    /\ delapsed = 0
    /\ dlog = << >>
    /\ lookups = << >>
    /\ WaiterIdle /\ CheckIdle /\ NormIdle /\ UploadIdle

NextDelete ==
    \/ DeleteAttempt
    \/ DeleteFinal

SpecDelete == InitDelete /\ [][NextDelete]_vars

FairSpecDelete == SpecDelete /\ WF_vars(NextDelete)

(***************************************************************************)
(* resourceAwsIAMServerCertificateCreate, lines 279-315, and               *)
(* resourceAwsIAMServerCertificateRead, lines 317-341.  A name is a        *)
(* sequence whose elements are the explicit name, the prefix and the       *)
(* uniquifier.                                                             *)
(***************************************************************************)
ExplicitNames == {<<"a">>, <<"b">>}
Prefixes == {<<"p">>}
\* "name" and "name_prefix" conflict with each other
NameConfigs ==
    {[name |-> n, prefix |-> EmptyString] : n \in ExplicitNames}
        \cup {[name |-> EmptyString, prefix |-> q] : q \in Prefixes}
        \cup {[name |-> EmptyString, prefix |-> EmptyString]}

\* what resource.UniqueId generates on one call
Uniquifiers == {<<"u1">>, <<"u2">>}
PrefixedUniqueId(prefix, u) == prefix \o u
UniqueId(u) == u
\* d.GetOk: the value is set when it is not the zero value
GetOk(v) == v # EmptyString

\* lines 282-289
ResolveName(name, prefix, u) ==
    IF GetOk(name) THEN name
    ELSE IF GetOk(prefix) THEN PrefixedUniqueId(prefix, u)
    ELSE UniqueId(u)

\* storing the configured name instead of the resolved one
StoredName_Configured(resolved, configured) == configured

\* d.Set("name", sslCertName), line 312
StoredName(resolved, configured) == resolved

ServerCertificateIds == {<<"I", "1">>, <<"I", "2">>, <<"I", "3">>}
IamStores ==
    {{}} \cup {{[name |-> n, id |-> <<"I", "1">>]} :
                 n \in ExplicitNames \cup {<<"p", "u1">>, <<"u1">>}}
NamesOf(store) == {c.name : c \in store}
IdsOf(store) == {c.id : c \in store}

\* the answers of conn.UploadServerCertificate for a name
UploadServerCertificate(store, name) ==
    {[err |-> e, id |-> EmptyString] :
        e \in {"RequestError", "MalformedCertificate"}}
        \cup (IF name \in NamesOf(store)
              THEN {[err |-> "EntityAlreadyExists", id |-> EmptyString]}
              ELSE {[err |-> "none", id |-> i] :
                       i \in ServerCertificateIds \ IdsOf(store)})

\* the answers of conn.GetServerCertificate for a name
GetServerCertificate(store, name) ==
    {[err |-> "RequestError", id |-> EmptyString]}
        \cup (IF name \in NamesOf(store)
              THEN {[err |-> "none", id |-> c.id] :
                       c \in {x \in store : x.name = name}}
              ELSE {[err |-> "NoSuchEntity", id |-> EmptyString]})

Call(name, resp) ==
    [called |-> TRUE, name |-> name, err |-> resp.err, id |-> resp.id]

UploadFrame == UNCHANGED <<cvars, ovars, hvars, kvars, nvars, dvars>>

\* Create up to its call of Read, lines 279-314
ServerCertificateCreate ==
    /\ upc = "start"
    /\ \E u \in Uniquifiers :
         LET name == ResolveName(sc_name, cfgPrefix, u) IN
         /\ sslCertName' = name
         /\ \E resp \in UploadServerCertificate(iam, name) :
              /\ uploadSeen' = Call(name, resp)
              /\ IF resp.err # "none"
                 THEN /\ uresult' = "upload_error"
                      /\ upc' = "done"
                      /\ UNCHANGED <<sc_id, sc_name, iam>>
                 ELSE /\ iam' = iam \cup {[name |-> name, id |-> resp.id]}
                      /\ sc_id' = resp.id
                      /\ sc_name' = StoredName(name, sc_name)
                      /\ upc' = "read"
                      /\ UNCHANGED uresult
    /\ UNCHANGED <<cfgName, cfgPrefix, getSeen>>
    /\ UploadFrame

\* Read as called by Create at line 314
ServerCertificateRead ==
    /\ upc = "read"
    /\ \E resp \in GetServerCertificate(iam, sc_name) :
         /\ getSeen' = Call(sc_name, resp)
         /\ IF resp.err = "NoSuchEntity"
            THEN sc_id' = EmptyString /\ uresult' = "ok"
            ELSE IF resp.err # "none"
            THEN uresult' = "read_error" /\ UNCHANGED sc_id
            ELSE sc_id' = resp.id /\ uresult' = "ok"
    /\ upc' = "done"
    /\ UNCHANGED <<cfgName, cfgPrefix, sslCertName, sc_name, iam, uploadSeen>>
    /\ UploadFrame

\* other actors on the remote system, between the upload and the fetch
IamFrame ==
    /\ UNCHANGED <<cfgName, cfgPrefix, sslCertName, sc_id, sc_name, upc,
                   uresult, uploadSeen, getSeen>>
    /\ UploadFrame

IamRemove ==
    /\ upc = "read"
    /\ \E c \in iam : iam' = iam \ {c}
    /\ IamFrame

IamReplace ==
    /\ upc = "read"
    /\ \E c \in iam : \E i \in ServerCertificateIds \ IdsOf(iam) :
         iam' = (iam \ {c}) \cup {[name |-> c.name, id |-> i]}
    /\ IamFrame

InitUpload ==
    /\ \E c \in NameConfigs :
         cfgName = c.name /\ cfgPrefix = c.prefix /\ sc_name = c.name
    /\ sslCertName = EmptyString
    /\ sc_id = EmptyString
    /\ upc = "start"
    /\ uresult = "none"
    /\ iam \in IamStores
    /\ uploadSeen = NoCall
    /\ getSeen = NoCall
    /\ WaiterIdle /\ CheckIdle /\ NormIdle /\ DeleteIdle

NextUpload ==
    \/ ServerCertificateCreate
    \/ ServerCertificateRead
    \/ IamRemove
    \/ IamReplace

SpecUpload == InitUpload /\ [][NextUpload]_vars

\* C20: the name sent to the upload is the explicit name if set, else the
\* prefix plus a uniquifier, else a uniquifier; after a successful upload
\* the identity the upload returned and that name are stored before Read
\* fetches, and Read fetches by that name; after a failed upload Create
\* returns the error with the identity unset and Read is not called.
C20_UploadedNameIsRead ==
    /\ uploadSeen.called
         => /\ uploadSeen.name = sslCertName
            /\ IF cfgName # EmptyString THEN sslCertName = cfgName
               ELSE IF cfgPrefix # EmptyString
               THEN \E u \in Uniquifiers : sslCertName = cfgPrefix \o u
               ELSE sslCertName \in Uniquifiers
    /\ upc = "read"
         => /\ uploadSeen.called /\ uploadSeen.err = "none"
            /\ sc_id = uploadSeen.id
            /\ sc_name = uploadSeen.name
            /\ ~getSeen.called
    /\ getSeen.called
         => /\ uploadSeen.called /\ uploadSeen.err = "none"
            /\ getSeen.name = uploadSeen.name
    /\ (uploadSeen.called /\ uploadSeen.err # "none")
         => /\ upc = "done" /\ uresult = "upload_error"
            /\ sc_id = EmptyString
            /\ ~getSeen.called

C20_Witness ==
    /\ upc = "done"
    /\ cfgName = EmptyString /\ cfgPrefix # EmptyString
    /\ getSeen.called /\ getSeen.err = "none"
    /\ sc_id = getSeen.id

(***************************************************************************)
(* Properties of server-certificate Delete (checked under SpecDelete).     *)
(***************************************************************************)
\* answer i was given to the attempt made after the deadline
AfterDeadline(i) ==
    dpc = "done" /\ delapsed >= DeleteTimeout /\ i = Len(dlog)

\* C3: whenever a DeleteServerCertificate call answers NoSuchEntity, Delete
\* returns success: on the first attempt, on a retry, and on the attempt made
\* after the deadline.
C3_NoSuchEntityIsSuccess ==
    (dpc = "done" /\ dlog[Len(dlog)].code = "NoSuchEntity")
    => dresult = "ok"

\* C4: a DeleteConflict whose message has the form 'currently in use by
\* <resource-type>:<id>/<name>.' is retryable: the name is extracted, the
\* delete is attempted again, and NoSuchEntity on a later attempt makes Delete
\* return success.
C4_DocumentedConflictRetried ==
    \A i \in 1..Len(dlog) :
        ( /\ dlog[i].code = "DeleteConflict"
          /\ FindLbName(dlog[i].msg) # << >>
          /\ ~AfterDeadline(i) )
        => /\ \E l \in 1..Len(lookups) :
                /\ lookups[l].attempt = i
                /\ lookups[l].name = FindLbName(dlog[i].msg)[1]
           /\ (dpc = "done" => Len(dlog) > i)
           /\ (dpc = "done" /\ dlog[Len(dlog)].code = "NoSuchEntity"
                 => dresult = "ok")

\* a DeleteConflict that says the certificate is in use
InUseConflict(ans) ==
    ans.code = "DeleteConflict" /\ Contains(ans.msg, <<InUseBy>>)
\* an error that is neither NoSuchEntity nor an in-use DeleteConflict
OtherError(ans) ==
    ans.code \notin {"ok", "NoSuchEntity"} /\ ~InUseConflict(ans)

\* C13: an error that is neither NoSuchEntity nor an in-use DeleteConflict is
\* fatal: Delete has returned that error, the attempt that produced it is
\* the last DeleteServerCertificate call and no lookup was made for it.
C13_OtherErrorIsFatal ==
    \A i \in 1..Len(dlog) :
        OtherError(dlog[i])
        => /\ dpc = "done"
           /\ i = Len(dlog)
           /\ dresult = dlog[i].code
           /\ \A l \in 1..Len(lookups) : lookups[l].attempt # i

C13_Witness ==
    /\ dpc = "done"
    /\ Len(dlog) = 2
    /\ dlog[1].code = "DeleteConflict" /\ dlog[1].msg = MsgArn
    /\ dlog[2].code = "DeleteConflict" /\ dlog[2].msg = MsgOther
    /\ dresult = "DeleteConflict"
    /\ Len(lookups) = 1

\* what Delete returns for its last answer, from the answers alone
ResultOf(ans, last) ==
    IF last THEN ans.code
    ELSE IF Classify(ans) = "done" THEN "ok" ELSE ans.code

\* C14: the result of Delete and the DeleteServerCertificate calls it makes
\* are a function of the delete answers (and of the time the retry slept)
\* alone: every answer but the last one was a retried conflict, the run
\* stops exactly at an answer that is not retried or at the attempt after the
\* deadline, and the result is that of the last answer, whatever the lookups
\* found, failed on, or were skipped.
C14_OutcomeIgnoresLookup ==
    LET n == Len(dlog) IN
    /\ \A i \in 1..(n - 1) : Classify(dlog[i]) = "retry"
    /\ \A l \in 1..Len(lookups) :
          /\ lookups[l].attempt \in 1..n
          /\ Classify(dlog[lookups[l].attempt]) = "retry"
    /\ (dpc = "done"
          => /\ n > 0
             /\ dresult = ResultOf(dlog[n], AfterDeadline(n))
             /\ (~AfterDeadline(n) => Classify(dlog[n]) # "retry"))
    /\ (dpc # "done" /\ n > 0 => Classify(dlog[n]) = "retry" /\ dresult = "none")

C14_Witness ==
    /\ dpc = "done"
    /\ Len(dlog) = 3
    /\ dlog[1].msg = MsgArn /\ dlog[2].msg = MsgArnUpper
    /\ dlog[3].code = "NoSuchEntity"
    /\ dresult = "ok"
    /\ Len(lookups) = 1
    /\ lookups[1].answer = "RequestError"

(***************************************************************************)
(* Properties of validation-waiter Create (checked under Spec).            *)
(***************************************************************************)
\* every issuance poll answered with a status other than ISSUED
AllPollsNotIssued ==
    /\ nPoll > 0
    /\ \A i \in 1..Len(pollSeen) : SawNotIssued(pollSeen[i])

\* C1: when every poll made before the deadline saw a status other than
\* ISSUED, exactly one more DescribeCertificate call is made, after the
\* deadline has expired; Create fails with the status-mismatch error when that
\* fetch is still not ISSUED and returns without error when it is ISSUED.
C1_OneFinalFetch ==
    /\ nFinal <= 1
    /\ (finalSeen # NoObs => elapsed >= CreateTimeout /\ nFinal = 1)
    /\ (pc = "final" => nFinal = 0 /\ AllPollsNotIssued)
    /\ (pc = "done" /\ AllPollsNotIssued =>
            /\ nFinal = 1
            /\ readSeen = NoObs
            /\ nDescribe >= nPoll + 1
            /\ (SawNotIssued(finalSeen) => result = "not_issued")
            /\ (SawIssued(finalSeen) => result = "ok"))

C1_Witness ==
    /\ pc = "done"
    /\ nPoll >= 2
    /\ AllPollsNotIssued
    /\ SawIssued(finalSeen)
    /\ result = "ok"

\* C2: when the first k polls see a status other than ISSUED, poll k+1 (made
\* before the deadline) sees ISSUED and the fetch of Read sees the same
\* certificate, Create returns success after k+1 polling calls and the identity
\* is the string form of the issuance timestamp.
C2_IssuedAfterKPolls ==
    LET n == Len(pollSeen) IN
    ( /\ pc = "done"
      /\ n > 0
      /\ SawIssued(pollSeen[n])
      /\ \A i \in 1..(n - 1) : SawNotIssued(pollSeen[i])
      /\ readSeen = pollSeen[n] )
    => /\ result = "ok"
       /\ nPoll >= n
       /\ nFinal = 0
       /\ d_id = TimeString(pollSeen[n].IssuedAt)

C2_Witness ==
    /\ pc = "done"
    /\ Len(pollSeen) = 3
    /\ SawNotIssued(pollSeen[1]) /\ SawNotIssued(pollSeen[2])
    /\ SawIssued(pollSeen[3])
    /\ readSeen = pollSeen[3]
    /\ result = "ok"
    /\ d_id = TimeString(42)

\* C8: when the first fetch reports a type other than AMAZON_ISSUED, Create
\* has failed after that single DescribeCertificate call: the record check
\* was not run, no issuance poll was made, the identity is unset.
C8_WrongTypeFailsAtOnce ==
    (firstSeen.err = "none" /\ firstSeen.Type # "AMAZON_ISSUED")
    => /\ pc = "done"
       /\ result = "wrong_type"
       /\ nDescribe = 1
       /\ nPoll = 0 /\ nFinal = 0
       /\ reconciler = "not_run"
       /\ d_id = EmptyString

C8_Witness ==
    /\ firstSeen.err = "none"
    /\ firstSeen.Type = "IMPORTED"
    /\ firstSeen.Status = "ISSUED"
    /\ fqdns # {}
    /\ pc = "done"

\* the errors resourceAwsAcmCertificateCheckValidationRecords returns
ReconcilerFailures ==
    {"unsupported", "missing", "options_empty", "describe_acm_error",
     "check_options_error"}

\* C9: when the record check ran (a non-empty declared set) and failed,
\* Create has returned that failure, no issuance poll was made and the
\* identity is unset.
C9_ReconcilerFailureAborts ==
    reconciler \in ReconcilerFailures
    => /\ fqdns # {}
       /\ pc = "done"
       /\ result = reconciler
       /\ nPoll = 0 /\ nFinal = 0
       /\ pollSeen = << >>
       /\ d_id = EmptyString

C9_Witness ==
    /\ reconciler = "missing"
    /\ nDescribe >= 2
    /\ pc = "done"
    /\ result = "missing"

(***************************************************************************)
(* Properties of the record check, lines 133-158 (checked under SpecCheck).*)
(***************************************************************************)
IsDns(v) == v.ValidationMethod = "DNS"
AllDns(reqs) == \A i \in 1..Len(reqs) : IsDns(reqs[i])
\* record names of the DNS requirements, one trailing dot stripped
NormNames(reqs) ==
    {TrimSuffixDot(reqs[i].RecordName) : i \in {j \in 1..Len(reqs) : IsDns(reqs[j])}}
NormDeclared(decl) == {TrimSuffixDot(f) : f \in decl}
ListedNames(out) == {e[2] : e \in out.entries}

\* C5: for a non-empty all-DNS requirement set the check succeeds exactly
\* when every normalized record name is among the normalized declared
\* names, and when it fails the record names it lists are exactly the
\* normalized record names that are not declared.
C5_SucceedsIffDeclared ==
    (checkOut # NoCheck /\ Len(R) > 0 /\ AllDns(R))
    => /\ checkOut.kind \in {"ok", "missing"}
       /\ (checkOut.kind = "ok" <=> NormNames(R) \subseteq NormDeclared(D))
       /\ (checkOut.kind = "missing"
             => ListedNames(checkOut) = NormNames(R) \ NormDeclared(D))

C5_Witness ==
    /\ checkOut.kind = "missing"
    /\ Len(R) = 2
    /\ R[1].RecordName = <<"a", ".">> /\ IsDns(R[1])
    /\ R[2].RecordName = <<"b", ".">> /\ IsDns(R[2])
    /\ D = {<<"a", ".">>, <<"a", ".", ".">>}
    /\ ListedNames(checkOut) = {<<"b">>}

\* DNS requirement i is not satisfied by the declared names
Undeclared(i) ==
    /\ IsDns(R[i])
    /\ TrimSuffixDot(R[i].RecordName) \notin NormDeclared(D)
EntryOf(i) == <<R[i].DomainName, TrimSuffixDot(R[i].RecordName)>>

\* C6 as stated: the aggregated error has an entry (domain, record name) for
\* every DNS requirement whose normalized record name is not declared.
C6_EntryPerRequirement ==
    checkOut.kind = "missing"
    => \A i \in 1..Len(R) : Undeclared(i) => EntryOf(i) \in checkOut.entries

\* the last requirement carrying record name k
LastWith(k) ==
    CHOOSE i \in 1..Len(R) :
        /\ IsDns(R[i]) /\ TrimSuffixDot(R[i].RecordName) = k
        /\ \A j \in (i + 1)..Len(R) :
              ~(IsDns(R[j]) /\ TrimSuffixDot(R[j].RecordName) = k)

\* C6 amended: the aggregated error has exactly one entry per distinct
\* undeclared normalized record name, carrying the domain of the last
\* requirement with that name; requirements whose (domain, record name) are
\* not shadowed that way all have their entry.
C6_EntryPerRecordName ==
    checkOut.kind = "missing"
    => LET missing == NormNames(R) \ NormDeclared(D) IN
       /\ ListedNames(checkOut) = missing
       /\ Cardinality(checkOut.entries) = Cardinality(missing)
       /\ \A k \in missing : EntryOf(LastWith(k)) \in checkOut.entries
       /\ \A i \in 1..Len(R) :
             (Undeclared(i) /\ i = LastWith(TrimSuffixDot(R[i].RecordName)))
             => EntryOf(i) \in checkOut.entries

C6_Witness ==
    /\ checkOut.kind = "missing"
    /\ Len(R) = 2
    /\ IsDns(R[1]) /\ IsDns(R[2])
    /\ R[1].DomainName = "d1" /\ R[2].DomainName = "d2"
    /\ R[1].RecordName = <<"a", ".">> /\ R[2].RecordName = <<"a">>
    /\ D = {<<"b">>}
    /\ checkOut.entries = {<<"d2", <<"a">>>>}

\* a requirement of method EMAIL, or of no method with e-mail addresses
IsEmail(v) ==
    \/ v.ValidationMethod = "EMAIL"
    \/ (v.ValidationMethod = "nil" /\ v.ValidationEmails > 0)

\* C7: with such a requirement anywhere in the set, the check fails with the
\* 'only valid for DNS validation' error, whatever is declared.
C7_EmailUnsupported ==
    (checkOut # NoCheck /\ \E i \in 1..Len(R) : IsEmail(R[i]))
    => checkOut.kind = "unsupported"

C7_Witness ==
    /\ checkOut.kind = "unsupported"
    /\ Len(R) = 2
    /\ IsDns(R[1]) /\ R[1].RecordName = <<"a", ".">>
    /\ R[2].ValidationMethod = "nil" /\ R[2].ValidationEmails > 0
    /\ D = {<<"a">>}

(***************************************************************************)
(* Properties of normalizeCert (checked under SpecNorm).                   *)
(***************************************************************************)
\* nil, or a nil *string
IsNull(c) == c.type = "nil" \/ (c.type = "*string" /\ c.isnil)
\* the empty string, passed as a string or through a *string
IsEmptyText(c) ==
    c.type \in {"string", "*string"} /\ ~c.isnil /\ c.val = EmptyString

IsText(c) == c.type \in {"string", "*string"} /\ ~c.isnil

\* C11: for a non-null string, normalizeCert is unchanged by a carriage
\* return inserted or removed at any position and by whitespace added or
\* removed at either end; suppressNormalizeCertRemoval then answers the same
\* for the two texts, whatever signature is stored.
C11_SignatureIgnoresCRAndTrim ==
    (sig # NoSig /\ IsText(certIn))
    => /\ variant \in Variants(certIn.val)
       /\ sigVariant = sig
       /\ suppressed.new = suppressed.variant

C11_Witness ==
    /\ sig # NoSig
    /\ certIn = Text(<<"x", "LF", "x">>)
    /\ variant = <<"x", "CR", "LF", "x">>
    /\ oldSig = sig
    /\ sigVariant = sig
    /\ suppressed = [new |-> TRUE, variant |-> TRUE]

(***************************************************************************)
(* Properties of validation-waiter Read and Delete (checked under SpecOps).*)
(***************************************************************************)
\* C12: Read makes exactly one fetch and sets the identity from it: not-found
\* clears it without error, a certificate that is not ISSUED clears it
\* without error, an ISSUED certificate sets it to the string form of its
\* issuance timestamp, any other fetch error is returned and leaves it as it
\* was.
C12_ReadSetsIdentity ==
    pc = "read_done"
    => /\ nDescribe = 1
       /\ (readSeen.err = "ResourceNotFoundException"
             => d_id = EmptyString /\ result = "ok")
       /\ (SawNotIssued(readSeen) => d_id = EmptyString /\ result = "ok")
       /\ (SawIssued(readSeen)
             => d_id = TimeString(readSeen.IssuedAt) /\ result = "ok")
       /\ (readSeen.err \notin {"none", "ResourceNotFoundException"}
             => d_id = idBefore /\ result = "describe_error")

C12_Witness ==
    /\ pc = "read_done"
    /\ readSeen.err = "RequestError"
    /\ idBefore = TimeString(7)
    /\ d_id = TimeString(7)
    /\ result = "describe_error"

\* C15: Delete makes no remote call, leaves the remote certificate and the
\* local state as they are, and returns success.
C15_DeleteIsNoOp ==
    [][(pc = "ready" /\ pc' = "delete_done")
        => /\ remote' = remote
           /\ nDescribe' = nDescribe
           /\ d_id' = d_id /\ fqdns' = fqdns
           /\ result' = "ok"]_vars

C15_Witness ==
    /\ pc = "delete_done"
    /\ result = "ok"
    /\ nDescribe = 0
    /\ d_id = TimeString(42)
    /\ remote.exists /\ remote.Status = "ISSUED"

(***************************************************************************)
(* Further properties of validation-waiter Create (checked under Spec).    *)
(***************************************************************************)
\* what the fetches of Create observed of the certificate
Observed ==
    {pollSeen[i] : i \in 1..Len(pollSeen)} \cup {readSeen, finalSeen, firstSeen}

\* under FairSpec / FairSpecDelete: the operation ends
CreateEnds == <>(pc = "done")
DeleteEnds == <>(dpc = "done")

\* C16: every invocation of Create returns: while it runs a step of it can
\* be taken, it ends by returning a result, after the deadline of a retry
\* loop at most one more call of that loop is made, and none after it
\* returned.
C16_InvocationReturns ==
    /\ (pc # "done" => ENABLED CreateSteps)
    /\ (pc = "done" => result \notin {"none", "panic"} /\ ~ENABLED CreateSteps)
    /\ nFinal <= 1
    /\ Cardinality({i \in 1..Len(recSeen) : recSeen[i].final}) <= 1
    /\ (pc = "poll" => elapsed < CreateTimeout)
    /\ (pc = "records_retry" => elapsed < RecordsTimeout)

\* C17: whenever Create returns success the identity is non-empty and is the
\* issuance-timestamp string of a certificate it observed ISSUED.
C17_SuccessHasIdentity ==
    (pc = "done" /\ result = "ok")
    => /\ d_id # EmptyString
       /\ \E o \in Observed : SawIssued(o) /\ d_id = TimeString(o.IssuedAt)

\* C18: handed an empty requirement set, the record check fetches again
\* while the set is empty and the 1-minute deadline has not expired, then
\* once more; it runs the satisfaction check on the set of the last fetch,
\* which is not empty, and fails when the set is still empty at the fetch
\* after the deadline or when a fetch fails.
C18_ReconcilerWaits ==
    LET n == Len(recSeen) IN
    /\ \A i \in 1..(n - 1) :
          /\ recSeen[i].err = "none"
          /\ recSeen[i].Options = << >>
          /\ ~recSeen[i].final
    /\ (pc = "records_retry" => elapsed < RecordsTimeout /\ reconciler = "running")
    /\ (pc = "records_final"
          => /\ elapsed >= RecordsTimeout /\ reconciler = "running"
             /\ n > 0 /\ ~recSeen[n].final)
    /\ (n > 0 /\ recSeen[n].final => pc \notin {"records_retry", "records_final"})
    /\ (n > 0 /\ reconciler \in {"ok", "unsupported", "missing"}
          => /\ recSeen[n].err = "none"
             /\ recSeen[n].Options # << >>
             /\ cert.Options = recSeen[n].Options
             /\ reconciler = CheckSatisfaction(fqdns, recSeen[n].Options).kind)
    /\ (reconciler = "ok" => cert.Options # << >>)
    /\ (n > 0 /\ recSeen[n].err # "none"
          => /\ reconciler = (IF recSeen[n].final THEN "describe_acm_error"
                              ELSE "check_options_error")
             /\ result = reconciler)
    /\ (n > 0 /\ recSeen[n].final /\ recSeen[n].err = "none"
              /\ recSeen[n].Options = << >>
          => reconciler = "options_empty" /\ result = reconciler)

C18_Witness ==
    /\ Len(recSeen) = 3
    /\ recSeen[3].final
    /\ recSeen[3].Options # << >>
    /\ reconciler = "ok"
    /\ pc = "poll"

\* C19: when the DescribeCertificate call made after the deadline fails,
\* Create returns the error that reports it.
C19_FailedFinalFetchReported ==
    finalSeen.err \notin {"unset", "none"}
    => pc = "done" /\ result = "describe_created_error"

====
